---- MODULE Spec2Model ----
(***************************************************************************)
(* ALMA MCP server (src/server.py): the tool functions, the three          *)
(* collaborators they call (SIMBAD name resolver, alminer, the TAP         *)
(* service) and the availability flags set at import time.                 *)
(*                                                                         *)
(* A collaborator call is answered by the environment: it raises, or it    *)
(* returns a table with some number of rows.  Every tool but the batch     *)
(* query is one action (the whole function body); the batch query is a     *)
(* loop over source_names and takes one action per iteration.              *)
(***************************************************************************)
EXTENDS Integers, Sequences, FiniteSets, TLC

\* ------------------------------------------------------------------ bounds
MaxRows == 1
MaxNames == 25
MaxUidLen == 7

\* ------------------------------------------------------- program constants
BatchLimit == 20
DisplayCap == 20

VARIABLES
    ALMINER_AVAILABLE,   \* import alminer succeeded
    PYVO_AVAILABLE,      \* import pyvo succeeded
    SIMBAD_AVAILABLE,    \* import astroquery/astropy succeeded
    pc,                  \* "idle", "batch" (inside the batch loop) or "done"
    op,                  \* the tool of the current / last request
    args,                \* its arguments (those the control flow reads)
    env,                 \* what each collaborator answers during the request
    calls,               \* remote calls made during the request, per collaborator
    outcome,             \* "returned" or "raised": how the tool call ended
    response,            \* the mapping returned (the exception when raised)
    sent,                \* the queries the request handed to a backend, in order
                         \* (those whose text the model builds)
    idx,                 \* batch: number of names the for loop has consumed
    results_by_source,   \* batch: the dict name -> per-name result
    total_observations,  \* batch: the running sum
    last_outcome         \* batch: name -> what the collaborators answered for its
                         \*        last occurrence (history, not program state)

vars == <<ALMINER_AVAILABLE, PYVO_AVAILABLE, SIMBAD_AVAILABLE, pc, op, args, env,
          calls, outcome, response, sent, idx, results_by_source,
          total_observations, last_outcome>>

flags == <<ALMINER_AVAILABLE, PYVO_AVAILABLE, SIMBAD_AVAILABLE>>
batchVars == <<idx, results_by_source, total_observations, last_outcome>>

\* ------------------------------------------------------------ value domains
None == "<None>"
Min(a, b) == IF a <= b THEN a ELSE b

\* A table returned by a collaborator (len(df) rows), or an exception.
Raises == [exc |-> TRUE, n |-> 0]
Rows(k) == [exc |-> FALSE, n |-> k]
TableOutcomes == {Raises} \cup {Rows(k) : k \in 0..MaxRows}
\* len(df) for the tools that show df.head(20): below and from the display cap on.
RowCounts == (0..MaxRows) \cup {DisplayCap + k : k \in 0..MaxRows}
ListOutcomes == {Raises} \cup {Rows(k) : k \in RowCounts}
\* Simbad.query_object + SkyCoord: raises, returns None / an empty table, or a match.
SimbadOutcomes == {"exc", "nomatch", "ok"}
Unused == [exc |-> FALSE, n |-> 0]

\* str(e) of the exception each collaborator raises.
SimbadExc == "simbad exception"
AlminerExc == "alminer exception"
TapExc == "tap exception"

NoCalls == [simbad |-> 0, alminer |-> 0, tap |-> 0]
Call(c, svc) == [c EXCEPT ![svc] = @ + 1]

\* Truthiness of an optional argument, as any([...]) and `if x:` read it.
Truthy(v) == v # None /\ v # ""

\* ------------------------------------------------------------- tool results
\* `return {...}` from a tool.
Return(m, c) == [kind |-> "returned", response |-> m, calls |-> c]

\* The queries a tool call handed to a backend, in the order of the calls.
QueriesOf(r) == IF "queries" \in DOMAIN r THEN r.queries ELSE <<>>
\* The query q goes to a backend, and the tool then ends with r.
Sending(q, r) ==
    [kind |-> r.kind, response |-> r.response, calls |-> r.calls,
     queries |-> <<q>> \o QueriesOf(r)]

\* One condition of a query: the column, the value it is compared with and the
\* argument the value comes from ("fixed": written into the query text).
Pred(col, v, from) == [column |-> col, value |-> v, from |-> from]
When(cond, p) == IF cond THEN {p} ELSE {}
\* `WHERE 1=1`: the where clause when the list of conditions is empty.
Tautology == Pred("1", "1", "fixed")

\* The mutation of Caught: the except clause is missing and the exception leaves the tool.
CaughtNot(prefix, cause, c) == [kind |-> "raised", response |-> [exception |-> cause], calls |-> c]

\* `except Exception as e: return {"error": f"<prefix>{str(e)}"}`.
Caught(prefix, cause, c) == Return([error |-> <<prefix, cause>>], c)

\* `return {"error": "<text>"}` before the try block (a flag is False, a check fails).
Refuse(text, c) == Return([error |-> <<text, None>>], c)

\* The mutation of Observations: one record per row of df, without head(20).
ObservationsUncapped(n, obs) == [k \in 1..n |-> obs]

\* observations: one record per row of df.head(20).
Observations(n, obs) == [k \in 1..Min(DisplayCap, n) |-> obs]

\* {"count": 0, "observations": [], "summary": ..., <extra keys>}.
EmptyResponse(extra, c) ==
    Return([count |-> 0, observations |-> <<>>, summary |-> "none found"] @@ extra, c)

\* {"count": len(df), "showing": min(20, len(df)), "observations": [...], ...}.
ListResponse(n, obs, extra, c) ==
    Return([count |-> n, showing |-> Min(DisplayCap, n),
            observations |-> Observations(n, obs), summary |-> "found"] @@ extra, c)

PyvoMissing == "pyvo library not installed"
NoFilterGiven == "Must provide at least one search parameter"

\* A row of a result table is a function from the columns the table has to their
\* values; the value in column c is written c, the number 0 is written "0".
\* row.get(col, default).
Get(row, col, default) == IF col \in DOMAIN row THEN row[col] ELSE default

\* ---------------------------------------------- TOOL 2: search by coordinates
\* The columns the query selects: every row of its result has them all.
PositionRow ==
    [c \in {"target_name", "s_ra", "s_dec", "band_list", "proposal_id",
            "frequency", "bandwidth", "t_exptime", "s_resolution"} |-> c]

\* The observation made of a row: each key with the value it is given.
PositionObs ==
    [target |-> Get(PositionRow, "target_name", "Unknown"),
     ra |-> Get(PositionRow, "s_ra", "0"),
     dec |-> Get(PositionRow, "s_dec", "0"),
     band |-> Get(PositionRow, "band_list", "Unknown"),
     proposal_id |-> Get(PositionRow, "proposal_id", "Unknown")]

\* Lines 163-170: SELECT TOP 100 ... WHERE CONTAINS(POINT, CIRCLE) = 1; public_only
\* adds nothing to it.
position_query(a) ==
    [backend |-> "tap", top |-> 100,
     where |-> {Pred("s_ra, s_dec", "circle", "ra_degrees, dec_degrees, radius_arcmin")}]

\* c: the calls the caller has already made (search_alma_by_target falls back here).
search_alma_by_position(a, e, c) ==
    IF ~PYVO_AVAILABLE THEN Refuse(PyvoMissing, c)
    ELSE LET c1 == Call(c, "tap") IN
         Sending(position_query(a),
             IF e.tap.exc THEN Caught("Position search failed: ", TapExc, c1)
             ELSE IF e.tap.n = 0
                  THEN EmptyResponse([position |-> <<"ra_degrees", "dec_degrees">>], c1)
                  ELSE ListResponse(e.tap.n, PositionObs,
                                    [position |-> <<"ra_degrees", "dec_degrees">>], c1))

\* ---------------------------------------------- TOOL 1: search by target name
\* The mutation of target_obs: only the first column name is looked up.
target_obs_first_name_only(row) ==
    [target |-> Get(row, "target_name", "Unknown"),
     ra |-> Get(row, "s_ra", "0"),
     dec |-> Get(row, "s_dec", "0"),
     band |-> Get(row, "band_list", "Unknown"),
     proposal_id |-> Get(row, "proposal_id", "Unknown"),
     integration_time_sec |-> Get(row, "t_exptime", "0")]

\* Lines 106-113: the observation made of a row of the alminer table.
target_obs(row) ==
    [target |-> Get(row, "target_name", "Unknown"),
     ra |-> Get(row, "s_ra", Get(row, "ra", "0")),
     dec |-> Get(row, "s_dec", Get(row, "dec", "0")),
     band |-> Get(row, "band_list", Get(row, "band", "Unknown")),
     proposal_id |-> Get(row, "proposal_id", Get(row, "project_code", "Unknown")),
     integration_time_sec |-> Get(row, "t_exptime", Get(row, "integration_time", "0"))]

\* Lines 92-93: alminer.conesearch(ra_deg, dec_deg, search_radius, public=public_only).
conesearch_call(a) ==
    [backend |-> "alminer", public |-> a.public_only,
     where |-> {Pred("s_ra, s_dec", "circle", "target_name, radius_arcmin")}]

\* Lines 89-125: the alminer branch, entered with the name resolved.
target_alminer(e, c) ==
    LET c1 == Call(c, "alminer") IN
    IF e.alminer.exc THEN Caught("ALMA search failed: ", AlminerExc, c1)
    ELSE IF e.alminer.n = 0
         THEN EmptyResponse([target_resolved_to |-> <<"ra_deg", "dec_deg">>], c1)
         ELSE ListResponse(e.alminer.n, target_obs(e.row),
                           [target_resolved_to |-> <<"ra_deg", "dec_deg">>], c1)

search_alma_by_target(a, e) ==
    IF ~SIMBAD_AVAILABLE
    THEN Refuse("astroquery not installed - cannot resolve target name", NoCalls)
    ELSE LET c1 == Call(NoCalls, "simbad") IN
         IF e.simbad = "nomatch"
         THEN Refuse("Could not resolve target - not found in SIMBAD", c1)
         ELSE IF e.simbad = "exc"
         THEN Caught("Failed to resolve target: ", SimbadExc, c1)
         ELSE IF ALMINER_AVAILABLE
         THEN Sending(conesearch_call(a), target_alminer(e, c1))
         ELSE search_alma_by_position(a, e, c1)

\* ---------------------------------------------- TOOL 3: search by proposal/PI
ProposalObs ==
    [target |-> "target_name", proposal_id |-> "proposal_id",
     pi |-> "obs_creator_name", band |-> "band_list"]

\* Lines 234-242: search_dict, the keywords handed to alminer.keysearch.
proposal_search_dict(a) ==
    [backend |-> "alminer",
     where |-> When(Truthy(a.proposal_id),
                    Pred("proposal_id", a.proposal_id, "proposal_id"))
               \cup When(Truthy(a.pi_name), Pred("pi_name", a.pi_name, "pi_name"))
               \cup When(Truthy(a.science_category),
                         Pred("scientific_category", a.science_category,
                              "science_category"))]

\* Lines 276-289: the conditions of the TAP query (science_category adds none).
proposal_tap_query(a) ==
    LET conditions ==
            When(Truthy(a.proposal_id),
                 Pred("proposal_id", a.proposal_id, "proposal_id"))
            \cup When(Truthy(a.pi_name),
                      Pred("obs_creator_name", a.pi_name, "pi_name")) IN
    [backend |-> "tap", top |-> 100,
     where |-> IF conditions # {} THEN conditions ELSE {Tautology}]

\* Lines 244-263: alminer.keysearch returned df.
proposal_alminer_result(e, c) ==
    IF e.alminer.n = 0
    THEN EmptyResponse(<<>>, c)
    ELSE ListResponse(e.alminer.n, ProposalObs, <<>>, c)

\* The mutation of proposal_tap: the error reported is the first one (alminer's).
proposal_tap_first_error(a, e, c) ==
    IF ~PYVO_AVAILABLE THEN Refuse("Neither alminer nor pyvo available", c)
    ELSE LET c1 == Call(c, "tap") IN
         IF e.tap.exc
         THEN Caught("Proposal search failed: ",
                     IF c.alminer > 0 THEN AlminerExc ELSE TapExc, c1)
         ELSE ListResponse(e.tap.n, ProposalObs, <<>>, c1)

\* Lines 268-312: the TAP query; c.alminer > 0 when keysearch raised before.
proposal_tap(a, e, c) ==
    IF ~PYVO_AVAILABLE THEN Refuse("Neither alminer nor pyvo available", c)
    ELSE LET c1 == Call(c, "tap") IN
         Sending(proposal_tap_query(a),
                 IF e.tap.exc
                 THEN Caught("Proposal search failed: ", TapExc, c1)
                 ELSE ListResponse(e.tap.n, ProposalObs, <<>>, c1))

\* The mutation of search_alma_by_proposal: an empty keysearch result is retried on TAP.
search_alma_by_proposal_retry_empty(a, e) ==
    IF ~(Truthy(a.proposal_id) \/ Truthy(a.pi_name) \/ Truthy(a.science_category))
    THEN Refuse(NoFilterGiven, NoCalls)
    ELSE IF ALMINER_AVAILABLE
    THEN LET c1 == Call(NoCalls, "alminer") IN
         IF e.alminer.exc \/ e.alminer.n = 0
         THEN proposal_tap(a, e, c1)
         ELSE proposal_alminer_result(e, c1)
    ELSE proposal_tap(a, e, NoCalls)

search_alma_by_proposal(a, e) ==
    IF ~(Truthy(a.proposal_id) \/ Truthy(a.pi_name) \/ Truthy(a.science_category))
    THEN Refuse(NoFilterGiven, NoCalls)
    ELSE IF ALMINER_AVAILABLE
    THEN LET c1 == Call(NoCalls, "alminer") IN
         Sending(proposal_search_dict(a),
                 IF e.alminer.exc
                 THEN proposal_tap(a, e, c1)      \* except Exception: pass
                 ELSE proposal_alminer_result(e, c1))
    ELSE proposal_tap(a, e, NoCalls)

\* ---------------------------------------------- TOOL 4: check line coverage
\* e.covered: what alminer.line_coverage(df, ...) gives (a local filter of df).
\* Frequencies are counted in units of 0.0001 GHz and redshifts in tenths, so that
\* round(x, 4) is a rounding to an integer.
\* round(a / b) for a >= 0 and b > 0: to the nearest integer, a tie to the even one.
RoundDiv(a, b) ==
    LET q == a \div b
        r == a % b IN
    IF 2 * r < b THEN q
    ELSE IF 2 * r > b THEN q + 1
    ELSE IF q % 2 = 0 THEN q ELSE q + 1

\* round(line_frequency_ghz / (1 + redshift), 4).
observed_frequency(a) == RoundDiv(a.line_frequency_ghz * 10, 10 + a.redshift)

check_alma_line_coverage(a, e) ==
    IF ~ALMINER_AVAILABLE
    THEN Refuse("alminer library required for line coverage check", NoCalls)
    ELSE IF ~SIMBAD_AVAILABLE
    THEN Refuse("astroquery required for target resolution", NoCalls)
    ELSE LET c1 == Call(NoCalls, "simbad")
             c2 == Call(c1, "alminer") IN
         IF e.simbad = "nomatch" THEN Refuse("Could not resolve target", c1)
         ELSE IF e.simbad = "exc"
         THEN Caught("Line coverage check failed: ", SimbadExc, c1)
         ELSE IF e.alminer.exc
         THEN Caught("Line coverage check failed: ", AlminerExc, c2)
         ELSE IF e.alminer.n = 0
         THEN Return([total_observations |-> 0, covering_line |-> 0,
                      summary |-> "none found"], c2)
         ELSE IF e.covered.exc
         THEN Caught("Line coverage check failed: ", AlminerExc, c2)
         ELSE IF 10 + a.redshift = 0
         THEN Caught("Line coverage check failed: ", "float division by zero", c2)
         ELSE Return([total_observations |-> e.alminer.n,
                      covering_line |-> e.covered.n,
                      line_frequency_ghz |-> a.line_frequency_ghz,
                      redshift |-> a.redshift,
                      observed_frequency_ghz |-> observed_frequency(a),
                      summary |-> IF e.covered.n = 0 THEN "none cover" ELSE "cover"], c2)

\* ---------------------------------------------- TOOL 5: static information
get_alma_info ==
    Return([telescope |-> "ALMA", bands |-> "band table",
            common_lines |-> "line table", science_categories |-> "category list"],
           NoCalls)

\* ---------------------------------------------- TOOLS 6-15: TAP-only searches
\* The numbers of a row: the frequency column is counted in hundredths and the
\* s_resolution column in thousandths of its unit, so that round(x, 2) and
\* round(x, 3) are roundings to an integer.  The key frequency_ghz is counted in
\* hundredths of a GHz and the key resolution_arcsec in thousandths of an arcsec.
Giga == 1000000000
ArcsecPerDegree == 3600

\* round(float(row.get("frequency", 0)) / 1e9, 2).
frequency_ghz_of(row) == RoundDiv(row.frequency, Giga)
\* round(float(row.get("s_resolution", 0)) * 3600, 3).
resolution_arcsec_of(row) == row.s_resolution * ArcsecPerDegree

\* Lines 468-480: the query of search_alma_by_frequency.
frequency_query(a) ==
    [backend |-> "tap", top |-> 100,
     where |-> {Pred("frequency", ">= min_freq_ghz * 1e9", "min_freq_ghz"),
                Pred("frequency", "<= max_freq_ghz * 1e9", "max_freq_ghz")}
               \cup When(Truthy(a.target_name),
                         Pred("target_name", a.target_name, "target_name")),
     order_by |-> "frequency"]

\* Lines 495-501.
frequency_obs(row) ==
    [target |-> "target_name", frequency_ghz |-> frequency_ghz_of(row),
     bandwidth_ghz |-> "bandwidth", band |-> "band_list",
     proposal_id |-> "proposal_id"]

search_alma_by_frequency(a, e) ==
    IF ~PYVO_AVAILABLE THEN Refuse(PyvoMissing, NoCalls)
    ELSE LET c1 == Call(NoCalls, "tap")
             x == [frequency_range_ghz |-> <<"min_freq_ghz", "max_freq_ghz">>] IN
         Sending(frequency_query(a),
             IF e.tap.exc THEN Caught("Frequency search failed: ", TapExc, c1)
             ELSE IF e.tap.n = 0 THEN EmptyResponse(x, c1)
             ELSE ListResponse(e.tap.n, frequency_obs(e.row), x, c1))

\* Lines 548-560: the query of search_alma_by_resolution.
resolution_query(a) ==
    [backend |-> "tap", top |-> 100,
     where |-> {Pred("s_resolution", "<= max_resolution_arcsec / 3600.0",
                     "max_resolution_arcsec"),
                Pred("s_resolution", ">= min_resolution_arcsec / 3600.0",
                     "min_resolution_arcsec")}
               \cup When(Truthy(a.target_name),
                         Pred("target_name", a.target_name, "target_name")),
     order_by |-> "s_resolution"]

\* Lines 574-581.
resolution_obs(row) ==
    [target |-> "target_name", resolution_arcsec |-> resolution_arcsec_of(row),
     band |-> "band_list", proposal_id |-> "proposal_id"]

search_alma_by_resolution(a, e) ==
    IF ~PYVO_AVAILABLE THEN Refuse(PyvoMissing, NoCalls)
    ELSE LET c1 == Call(NoCalls, "tap")
             x == [resolution_range_arcsec |->
                       <<"min_resolution_arcsec", "max_resolution_arcsec">>] IN
         Sending(resolution_query(a),
             IF e.tap.exc THEN Caught("Resolution search failed: ", TapExc, c1)
             ELSE IF e.tap.n = 0 THEN EmptyResponse(x, c1)
             ELSE ListResponse(e.tap.n, resolution_obs(e.row), x, c1))

\* TOOL 8: the raw query.  The query text is the sequence of its words (the text
\* split at white space); the three substring tests of the code are answered, word
\* by word, from the table Occurs.
Queries ==
    {<<"SELECT", "*", "FROM", "ivoa.obscore">>,
     <<"select", "*", "from", "ivoa.obscore">>,
     <<"SELECT", "TOP", "5", "*", "FROM", "ivoa.obscore">>,
     <<"SELECT", "COUNT(*)", "FROM", "ivoa.obscore">>,
     <<"SELECT", "*", "FROM", "ivoa.obscore", "WHERE", "target_name", "=", "'Topaz'">>,
     <<"SELECT", "*", "FROM", "ivoa.obscore", "WHERE", "pi_name", "=", "'Account'">>}

\* str.upper() on the words of Queries.
Upper(w) ==
    CASE w = "select" -> "SELECT"
      [] w = "from" -> "FROM"
      [] w = "ivoa.obscore" -> "IVOA.OBSCORE"
      [] w = "target_name" -> "TARGET_NAME"
      [] w = "pi_name" -> "PI_NAME"
      [] w = "'Topaz'" -> "'TOPAZ'"
      [] w = "'Account'" -> "'ACCOUNT'"
      [] OTHER -> w

\* `needle in w` for the needles the code looks for ('TOP', 'COUNT', 'SELECT').
Occurs(needle, w) ==
    <<needle, w>> \in {<<"TOP", "TOP">>, <<"TOP", "'TOPAZ'">>,
                       <<"COUNT", "COUNT(*)">>, <<"COUNT", "'ACCOUNT'">>,
                       <<"SELECT", "SELECT">>}

\* `needle in text`.
In(needle, text) == \E i \in DOMAIN text : Occurs(needle, text[i])
UpperText(text) == [i \in DOMAIN text |-> Upper(text[i])]

\* text.replace('SELECT', 'SELECT TOP <n>', 1): the first occurrence, in the case
\* it is written in the needle; the text is unchanged when there is none.
ReplaceSelect(text, n) ==
    IF ~In("SELECT", text) THEN text
    ELSE LET i == CHOOSE k \in DOMAIN text :
                      /\ Occurs("SELECT", text[k])
                      /\ \A j \in 1..(k - 1) : ~Occurs("SELECT", text[j]) IN
         SubSeq(text, 1, i) \o <<"TOP", ToString(n)>>
             \o SubSeq(text, i + 1, Len(text))

\* len(df.head(k)) for a df of n rows: a negative k leaves out the last -k rows.
HeadLen(k, n) == IF k >= 0 THEN Min(k, n) ELSE IF n + k > 0 THEN n + k ELSE 0

DefaultMaxRows == 100
RowCapLimit == 1000

\* Lines 628-636: the clamp and the text handed to service.search.
raw_query(a) ==
    LET max_rows == Min(IF "max_rows" \in DOMAIN a THEN a.max_rows
                                                   ELSE DefaultMaxRows, RowCapLimit)
        sql_upper == UpperText(a.sql_query)
        inject == /\ ~In("TOP", sql_upper)
                  /\ sql_upper[1] = "SELECT"
                  /\ ~In("COUNT", sql_upper) IN
    [backend |-> "tap",
     max_rows |-> max_rows,
     text |-> IF inject THEN ReplaceSelect(a.sql_query, max_rows) ELSE a.sql_query]

\* The flag check returns no hint; the except clause adds one.
run_alma_tap_query(a, e) ==
    IF ~PYVO_AVAILABLE THEN Refuse(PyvoMissing, NoCalls)
    ELSE LET c1 == Call(NoCalls, "tap")
             max_rows == raw_query(a).max_rows IN
         Sending(raw_query(a),
             IF e.tap.exc
             THEN Return([error |-> <<"TAP query failed: ", TapExc>>,
                          hint |-> "Check your SQL syntax."], c1)
             ELSE IF e.tap.n = 0
             THEN Return([count |-> 0, columns |-> "df.columns", rows |-> <<>>,
                          summary |-> "none found"], c1)
             ELSE Return([count |-> e.tap.n, showing |-> Min(max_rows, e.tap.n),
                          columns |-> "df.columns",
                          rows |-> [k \in 1..HeadLen(max_rows, e.tap.n) |-> "row"],
                          summary |-> "found"], c1))

\* Lines 704-719: SELECT TOP 100 ... WHERE target_name = or LIKE the name.
source_name_query(a) ==
    [backend |-> "tap", top |-> 100,
     where |-> {Pred("target_name",
                     IF a.exact_match THEN "= source_name" ELSE "LIKE %source_name%",
                     "source_name")}]

\* Lines 700-755: the TAP query of the source-name search.
source_name_tap(a, e, c) ==
    LET c1 == Call(c, "tap") IN
    Sending(source_name_query(a),
        IF e.tap.exc THEN Caught("Source name search failed: ", TapExc, c1)
        ELSE IF e.tap.n = 0 THEN EmptyResponse(<<>>, c1)
        ELSE ListResponse(e.tap.n,
                 [target |-> "target_name", ra |-> "s_ra", dec |-> "s_dec",
                  band |-> "band_list", proposal_id |-> "proposal_id",
                  data_type |-> "dataproduct_type"],
                 [unique_targets_found |-> "unique target_name"], c1))

\* The mutation of search_alma_by_source_name: alminer is tried first, TAP on failure.
search_alma_by_source_name_alminer_first(a, e) ==
    IF ALMINER_AVAILABLE /\ ~e.alminer.exc
    THEN proposal_alminer_result(e, Call(NoCalls, "alminer"))
    ELSE IF ~PYVO_AVAILABLE THEN Refuse(PyvoMissing, NoCalls)
    ELSE source_name_tap(a, e, IF ALMINER_AVAILABLE THEN Call(NoCalls, "alminer")
                                                 ELSE NoCalls)

search_alma_by_source_name(a, e) ==
    IF ~PYVO_AVAILABLE THEN Refuse(PyvoMissing, NoCalls)
    ELSE source_name_tap(a, e, NoCalls)

\* Lines 791-809: the conditions of the bibliography query.
bibliography_query(a) ==
    [backend |-> "tap", top |-> 100,
     where |-> When(Truthy(a.bibcode), Pred("bib_reference", a.bibcode, "bibcode"))
               \cup When(Truthy(a.journal_name),
                         Pred("bib_reference", a.journal_name, "journal_name"))
               \cup When(Truthy(a.first_author),
                         Pred("first_author", a.first_author, "first_author"))
               \cup When(Truthy(a.publication_year),
                         Pred("publication_year", a.publication_year,
                              "publication_year"))]

search_alma_by_bibliography(a, e) ==
    IF ~PYVO_AVAILABLE THEN Refuse(PyvoMissing, NoCalls)
    ELSE IF ~(Truthy(a.bibcode) \/ Truthy(a.journal_name) \/ Truthy(a.first_author)
              \/ Truthy(a.publication_year))
    THEN Refuse(NoFilterGiven, NoCalls)
    ELSE LET c1 == Call(NoCalls, "tap") IN
         Sending(bibliography_query(a),
             IF e.tap.exc THEN Caught("Bibliography search failed: ", TapExc, c1)
             ELSE IF e.tap.n = 0 THEN EmptyResponse(<<>>, c1)
             ELSE ListResponse(e.tap.n,
                      [target |-> "target_name", proposal_id |-> "proposal_id",
                       bibcode |-> "bib_reference", first_author |-> "first_author",
                       pub_year |-> "publication_year", pub_title |-> "pub_title"],
                      <<>>, c1))

\* A dataset identifier is a sequence of characters; "_" is the only character
\* the code looks at, so every other character (or run of them) is one atom.
\* str.replace("___", "://"): every non-overlapping occurrence, left to right.
RECURSIVE ReplaceTriple(_)
ReplaceTriple(s) ==
    IF Len(s) < 3 THEN s
    ELSE IF SubSeq(s, 1, 3) = <<"_", "_", "_">>
         THEN <<":", "/", "/">> \o ReplaceTriple(SubSeq(s, 4, Len(s)))
         ELSE <<Head(s)>> \o ReplaceTriple(Tail(s))

\* str.replace("_", "/").
ReplaceUnderscore(s) == [i \in DOMAIN s |-> IF s[i] = "_" THEN "/" ELSE s[i]]

\* str.replace("_", "/", 1): only the first underscore.
ReplaceUnderscoreOnce(s) ==
    [i \in DOMAIN s |->
        IF s[i] = "_" /\ \A j \in 1..(i - 1) : s[j] # "_" THEN "/" ELSE s[i]]

normalized_uid_once(member_ous_id) == ReplaceUnderscoreOnce(ReplaceTriple(member_ous_id))

normalized_uid(member_ous_id) == ReplaceUnderscore(ReplaceTriple(member_ous_id))

\* SELECT * FROM ivoa.obscore WHERE member_ous_uid = '{normalized_uid}': no TOP.
member_ous_query(a) ==
    [backend |-> "tap",
     where |-> {Pred("member_ous_uid", normalized_uid(a.member_ous_id), "member_ous_id")}]

\* Lines 891-901: round(float(row.get("frequency", 0)), 2) and
\* round(float(row.get("s_resolution", 0)), 3), the columns as they come.
member_ous_obs(row) ==
    [target |-> "target_name", ra |-> "s_ra", dec |-> "s_dec",
     band |-> "band_list", proposal_id |-> "proposal_id",
     frequency_ghz |-> row.frequency,
     resolution_arcsec |-> row.s_resolution,
     data_type |-> "dataproduct_type",
     access_url |-> "access_url"]

\* TOOL 11: every row is returned (df.iterrows(), no head(20)) and there is no "showing".
member_ous_result(a, e) ==
    IF ~PYVO_AVAILABLE THEN Refuse(PyvoMissing, NoCalls)
    ELSE LET c1 == Call(NoCalls, "tap")
             x == [member_ous_id |-> normalized_uid(a.member_ous_id)] IN
         IF e.tap.exc THEN Caught("Member OUS search failed: ", TapExc, c1)
         ELSE IF e.tap.n = 0 THEN EmptyResponse(x, c1)
         ELSE Return([count |-> e.tap.n,
                      observations |-> [k \in 1..e.tap.n |-> member_ous_obs(e.row)],
                      summary |-> "found"] @@ x, c1)

search_alma_by_member_ous(a, e) ==
    IF ~PYVO_AVAILABLE THEN member_ous_result(a, e)
    ELSE Sending(member_ous_query(a), member_ous_result(a, e))

\* str.lower() on the data_type values the model draws.
Lower(s) ==
    CASE s = "CUBE" -> "cube"
      [] s = "Image" -> "image"
      [] s = "Continuum" -> "continuum"
      [] s = "LINE" -> "line"
      [] OTHER -> s
DataTypes == {"cube", "image", "CUBE", "Image", "table", ""}

DataTypeInvalid == "data_type must be 'cube' or 'image'"

\* Lines 948-966: the conditions of the data-type query (the optional target_name,
\* science_keyword and band conditions are left out).
data_type_query(a) ==
    [backend |-> "tap", top |-> 100,
     where |-> {Pred("dataproduct_type", Lower(a.data_type), "data_type"),
                Pred("science_observation", "T", "fixed")}]

\* What the TAP call of the data-type search leads to.
\* Lines 981-987: round(float(row.get("frequency", 0)), 2) and
\* round(float(row.get("s_resolution", 0)), 3), the columns as they come.
data_type_obs(row) ==
    [target |-> "target_name", band |-> "band_list",
     proposal_id |-> "proposal_id", frequency_ghz |-> row.frequency,
     resolution_arcsec |-> row.s_resolution]

data_type_result(a, e, c1) ==
    LET x == [data_type |-> a.data_type] IN
    IF e.tap.exc THEN Caught("Data type search failed: ", TapExc, c1)
    ELSE IF e.tap.n = 0 THEN EmptyResponse(x, c1)
    ELSE ListResponse(e.tap.n, data_type_obs(e.row), x, c1)

\* The mutation of search_alma_by_data_type: data_type is checked when the rows are
\* back from the archive.
search_alma_by_data_type_checked_late(a, e) ==
    IF ~PYVO_AVAILABLE THEN Refuse(PyvoMissing, NoCalls)
    ELSE LET c1 == Call(NoCalls, "tap") IN
         Sending(data_type_query(a),
             IF ~e.tap.exc /\ Lower(a.data_type) \notin {"cube", "image"}
             THEN Refuse(DataTypeInvalid, c1)
             ELSE data_type_result(a, e, c1))

search_alma_by_data_type(a, e) ==
    IF ~PYVO_AVAILABLE THEN Refuse(PyvoMissing, NoCalls)
    ELSE IF Lower(a.data_type) \notin {"cube", "image"}
    THEN Refuse(DataTypeInvalid, NoCalls)
    ELSE Sending(data_type_query(a), data_type_result(a, e, Call(NoCalls, "tap")))

\* Lines 1033-1050: the conditions of the science-keyword query (band is left out;
\* science_observation_only has its default, True).
science_keyword_query(a) ==
    [backend |-> "tap", top |-> 100,
     where |-> {Pred("science_keyword", "keyword", "science_keyword"),
                Pred("science_observation", "T", "fixed")}
               \cup When(Truthy(a.data_type)
                             /\ Lower(a.data_type) \in {"cube", "image"},
                         Pred("dataproduct_type", Lower(a.data_type), "data_type"))]

search_alma_by_science_keyword(a, e) ==
    IF ~PYVO_AVAILABLE THEN Refuse(PyvoMissing, NoCalls)
    ELSE LET c1 == Call(NoCalls, "tap")
             x == [science_keyword |-> "science_keyword"] IN
         Sending(science_keyword_query(a),
             IF e.tap.exc THEN Caught("Science keyword search failed: ", TapExc, c1)
             ELSE IF e.tap.n = 0 THEN EmptyResponse(x, c1)
             ELSE ListResponse(e.tap.n,
                      [target |-> "target_name", band |-> "band_list",
                       proposal_id |-> "proposal_id",
                       data_type |-> "dataproduct_type",
                       science_keyword |-> "science_keyword"],
                      x @@ [unique_targets |-> "unique target_name"], c1))

\* Lines 1116-1133: LIKE '%<search_terms>%' on the abstract column(s), then the
\* fixed science_observation = 'T'.
abstract_query(a) ==
    [backend |-> "tap", top |-> 100,
     where |-> {Pred("proposal_abstract", a.search_terms, "search_terms")}
               \cup When(a.search_pub_abstract,
                         Pred("pub_abstract", a.search_terms, "search_terms"))
               \cup {Pred("science_observation", "T", "fixed")}]

search_alma_by_abstract(a, e) ==
    IF ~PYVO_AVAILABLE THEN Refuse(PyvoMissing, NoCalls)
    ELSE LET c1 == Call(NoCalls, "tap")
             x == [search_terms |-> a.search_terms] IN
         Sending(abstract_query(a),
             IF e.tap.exc THEN Caught("Abstract search failed: ", TapExc, c1)
             ELSE IF e.tap.n = 0 THEN EmptyResponse(x, c1)
             ELSE ListResponse(e.tap.n,
                      [target |-> "target_name", proposal_id |-> "proposal_id",
                       pi |-> "obs_creator_name", band |-> "band_list",
                       science_keyword |-> "science_keyword"],
                      x @@ [unique_proposals |-> "unique proposal_id"], c1))

\* sensitivity_type, "continuum" when the caller leaves it out.
SensitivityType(a) ==
    IF "sensitivity_type" \in DOMAIN a THEN a.sensitivity_type ELSE "continuum"

\* Lines 1204-1229: the measurement column, the conditions on it and the ordering
\* (the optional target_name and band conditions are left out).
sensitivity_query(a) ==
    LET sens_column == IF Lower(SensitivityType(a)) = "continuum"
                       THEN "cont_sensitivity_bandwidth"
                       ELSE "sensitivity_10kms" IN
    [backend |-> "tap", top |-> 100,
     where |-> {Pred(sens_column, "max_sensitivity_mjy", "max_sensitivity_mjy"),
                Pred(sens_column, "0", "fixed"),
                Pred("science_observation", "T", "fixed")},
     sensitivity |-> sens_column,
     order_by |-> sens_column]

\* Lines 1245-1251: round(float(row.get("s_resolution", 0)), 3), the column as it
\* comes.
sensitivity_obs(row) ==
    [target |-> "target_name", sensitivity_mjy |-> "sensitivity",
     band |-> "band_list", resolution_arcsec |-> row.s_resolution,
     proposal_id |-> "proposal_id"]

search_alma_by_sensitivity(a, e) ==
    IF ~PYVO_AVAILABLE THEN Refuse(PyvoMissing, NoCalls)
    ELSE LET c1 == Call(NoCalls, "tap")
             x == [max_sensitivity_mjy |-> "max_sensitivity_mjy",
                   sensitivity_type |-> SensitivityType(a)] IN
         Sending(sensitivity_query(a),
             IF e.tap.exc THEN Caught("Sensitivity search failed: ", TapExc, c1)
             ELSE IF e.tap.n = 0 THEN EmptyResponse(x, c1)
             ELSE ListResponse(e.tap.n, sensitivity_obs(e.row), x, c1))

\* ---------------------------------------------- TOOL 16: batch query
Names == {"M87", "NGC 1234"}

\* What SIMBAD and then TAP answer for one name of the list.
ItemOutcomes ==
    {[simbad |-> s, tap |-> Unused] : s \in {"exc", "nomatch"}}
        \cup {[simbad |-> "ok", tap |-> t] : t \in TableOutcomes}

NoResults == [name \in {} |-> None]

\* The mutation of SliceLen: the batch is not limited.
SliceLenUnlimited(n) == n

\* len(source_names[:20]) for a list of n names.
SliceLen(n) == Min(n, BatchLimit)

\* One pass of the loop body ended: the entry stored under the name, the rows added.
Entry(r, add, c) == [kind |-> "entry", entry |-> r, add |-> add, calls |-> c]

\* The mutation of batch_except: no inner except clause, the exception leaves the loop.
batch_except_missing(cause, c) == [kind |-> "raised", cause |-> cause, calls |-> c]

\* Lines 1350-1355: the inner except clause.
batch_except(cause, c) ==
    Entry([status |-> "error", count |-> 0, message |-> cause], 0, c)

\* The mutation of batch_not_resolved: a name SIMBAD does not know is reported as an error.
batch_not_resolved_as_error(c) ==
    Entry([status |-> "error", count |-> 0, message |-> "Could not resolve in SIMBAD"],
          0, c)

\* Lines 1303-1309: SIMBAD returned no match.
batch_not_resolved(c) ==
    Entry([status |-> "not_resolved", count |-> 0,
           message |-> "Could not resolve in SIMBAD"], 0, c)

\* Lines 1322-1328: SELECT TOP 50 ... WHERE CONTAINS(POINT, CIRCLE) = 1.
batch_query ==
    [backend |-> "tap", top |-> 50,
     where |-> {Pred("s_ra, s_dec", "circle", "source_names, radius_arcmin")}]

\* The queries one pass of the loop body sends: one when the name is resolved.
batch_queries(o) == IF o.simbad = "ok" THEN <<batch_query>> ELSE <<>>

\* Lines 1300-1355: the loop body for one name, o what the collaborators answer.
batch_item(o, c) ==
    LET c1 == Call(c, "simbad")
        c2 == Call(c1, "tap") IN
    IF o.simbad = "exc" THEN batch_except(SimbadExc, c1)
    ELSE IF o.simbad = "nomatch" THEN batch_not_resolved(c1)
    ELSE IF o.tap.exc THEN batch_except(TapExc, c2)
    ELSE IF o.tap.n = 0
    THEN Entry([status |-> "no_data", count |-> 0,
                coordinates |-> <<"ra_deg", "dec_deg">>,
                message |-> "No ALMA observations found"], 0, c2)
    ELSE Entry([status |-> "found", count |-> o.tap.n,
                coordinates |-> <<"ra_deg", "dec_deg">>,
                bands_observed |-> "unique band_list"], o.tap.n, c2)

\* Lines 1357-1366: the summary statistics and the response.
batch_response(n, results, total) ==
    LET sources_with_data ==
            Cardinality({s \in DOMAIN results : results[s].status = "found"}) IN
    [total_sources_queried |-> n,
     sources_with_alma_data |-> sources_with_data,
     total_observations |-> total,
     results_by_source |-> results,
     summary |-> <<sources_with_data, "of", n>>]

\* ------------------------------------------------------------------ actions
Env(s, a, cv, t) == [simbad |-> s, alminer |-> a, covered |-> cv, tap |-> t]
EnvNone == Env("unused", Unused, Unused, Unused)
\* The first row of the table a backend returned, where the tool's output depends
\* on it.
WithRow(e, row) == e @@ [row |-> row]
NoRow == <<>>
\* The tables alminer.conesearch can return differ in their columns: any of the
\* coordinate columns, and the other columns under their first name, under their
\* second name, or not at all.
OtherColumns ==
    {{"target_name", "band_list", "proposal_id", "t_exptime"},
     {"band", "project_code", "integration_time"},
     {}}
AlminerRows ==
    {[c \in coords \cup others |-> c] :
        coords \in SUBSET {"s_ra", "ra", "s_dec", "dec"}, others \in OtherColumns}
\* The frequency column (0, 230.50 and 20000000.00) and the s_resolution column
\* (0, 0.001 and 0.5) of the first row of a TAP table.
RawFrequencies == {0, 23050, 2000000000}
RawResolutions == {0, 1, 500}
TapRows == [frequency : RawFrequencies, s_resolution : RawResolutions]
RowsOf(t) == IF ~t.exc /\ t.n > 0 THEN TapRows ELSE {NoRow}
NoArgs == [none |-> None]
Optional == {None, "given"}
\* search_terms is required, and any string is accepted for it.
SearchTerms == {"", "dust"}
\* line_frequency_ghz (230.538 and 115.2712 GHz) and redshift (0, 0.3, 1.0, -1.0).
LineFrequencies == {2305380, 1152712}
Redshifts == {0, 3, 10, -10}
\* sensitivity_type: str, the two documented values and others.
SensitivityTypes == {"continuum", "Continuum", "line", "LINE", "rms", ""}
\* max_rows: int, at and around the ends of the documented range.
MaxRowsArgs == {-1, 0, 1, RowCapLimit, RowCapLimit + 1}
\* Identifiers a caller can hand over: the documented underscore form, the
\* canonical form, forms with a second "___" group, and every string of up to
\* MaxUidLen characters over an underscore and an ordinary character.
UnderscoreUid == <<"uid", "_", "_", "_", "A001", "_", "X123", "_", "X456">>
CanonicalUid == <<"uid", ":", "/", "/", "A001", "/", "X123", "/", "X456">>
MemberOusIds ==
    {UnderscoreUid, CanonicalUid,
     <<"uid", "_", "_", "_", "A001", "_", "_", "_", "X123">>,
     <<"uid", ":", "/", "/", "A001", "_", "_", "_", "X123">>}
    \cup UNION {[1..k -> {"_", "a"}] : k \in 0..MaxUidLen}

Init ==
    /\ ALMINER_AVAILABLE \in BOOLEAN
    /\ PYVO_AVAILABLE \in BOOLEAN
    /\ SIMBAD_AVAILABLE \in BOOLEAN
    /\ pc = "idle"
    /\ op = "none"
    /\ args = NoArgs
    /\ env = EnvNone
    /\ calls = NoCalls
    /\ outcome = "none"
    /\ response = <<>>
    /\ sent = <<>>
    /\ idx = 0
    /\ results_by_source = NoResults
    /\ total_observations = 0
    /\ last_outcome = NoResults

\* A tool call that runs to its end in one step: r is what the function gives.
Done(name, a, e, r) ==
    /\ pc = "idle"
    /\ pc' = "done"
    /\ op' = name
    /\ args' = a
    /\ env' = e
    /\ calls' = r.calls
    /\ outcome' = r.kind
    /\ response' = r.response
    /\ sent' = QueriesOf(r)
    /\ UNCHANGED <<flags, batchVars>>

\* The response has gone to the client; nothing of the request is kept (the module
\* holds no state but the three flags).
Deliver ==
    /\ pc = "done"
    /\ pc' = "idle"
    /\ op' = "none"
    /\ args' = NoArgs
    /\ env' = EnvNone
    /\ calls' = NoCalls
    /\ outcome' = "none"
    /\ response' = <<>>
    /\ sent' = <<>>
    /\ last_outcome' = NoResults
    /\ UNCHANGED <<flags, idx, results_by_source, total_observations>>

SearchByTarget ==
    /\ pc = "idle"
    /\ \E s \in SimbadOutcomes, a \in ListOutcomes, t \in ListOutcomes,
          pub \in BOOLEAN :
       \E row \in IF ~a.exc /\ a.n > 0 THEN AlminerRows ELSE {NoRow} :
           LET e == WithRow(Env(s, a, Unused, t), row)
               x == [public_only |-> pub] IN
           Done("search_alma_by_target", x, e, search_alma_by_target(x, e))

SearchByPosition ==
    /\ pc = "idle"
    /\ \E t \in ListOutcomes, pub \in BOOLEAN :
           LET e == Env("unused", Unused, Unused, t)
               x == [public_only |-> pub] IN
           Done("search_alma_by_position", x, e, search_alma_by_position(x, e, NoCalls))

SearchByProposal ==
    /\ pc = "idle"
    /\ \E p \in Optional, pi \in Optional, cat \in Optional,
          a \in ListOutcomes, t \in ListOutcomes :
           LET e == Env("unused", a, Unused, t)
               x == [proposal_id |-> p, pi_name |-> pi, science_category |-> cat] IN
           Done("search_alma_by_proposal", x, e, search_alma_by_proposal(x, e))

CheckLineCoverage ==
    /\ pc = "idle"
    /\ \E s \in SimbadOutcomes, a \in TableOutcomes, cv \in TableOutcomes,
          f \in LineFrequencies, z \in Redshifts :
           /\ cv.n <= a.n
           /\ LET e == Env(s, a, cv, Unused)
                  x == [line_frequency_ghz |-> f, redshift |-> z] IN
              Done("check_alma_line_coverage", x, e, check_alma_line_coverage(x, e))

GetAlmaInfo ==
    /\ pc = "idle"
    /\ Done("get_alma_info", NoArgs, EnvNone, get_alma_info)

SearchByFrequency ==
    /\ pc = "idle"
    /\ \E t \in ListOutcomes, n \in Optional :
       \E row \in RowsOf(t) :
           LET e == WithRow(Env("unused", Unused, Unused, t), row)
               x == [target_name |-> n] IN
           Done("search_alma_by_frequency", x, e, search_alma_by_frequency(x, e))

SearchByResolution ==
    /\ pc = "idle"
    /\ \E t \in ListOutcomes, n \in Optional :
       \E row \in RowsOf(t) :
           LET e == WithRow(Env("unused", Unused, Unused, t), row)
               x == [target_name |-> n] IN
           Done("search_alma_by_resolution", x, e, search_alma_by_resolution(x, e))

\* max_rows is left out (the default applies) or is any integer.
RunTapQuery ==
    /\ pc = "idle"
    /\ \E t \in ListOutcomes,
          x \in {[sql_query |-> q] : q \in Queries}
                \cup {[sql_query |-> q, max_rows |-> m] : q \in Queries, m \in MaxRowsArgs} :
           LET e == Env("unused", Unused, Unused, t) IN
           Done("run_alma_tap_query", x, e, run_alma_tap_query(x, e))

\* alminer's answer is drawn although the tool never asks for it.
SearchBySourceName ==
    /\ pc = "idle"
    /\ \E a \in ListOutcomes, t \in ListOutcomes, exact \in BOOLEAN :
           LET e == Env("unused", a, Unused, t)
               x == [exact_match |-> exact] IN
           Done("search_alma_by_source_name", x, e, search_alma_by_source_name(x, e))

SearchByBibliography ==
    /\ pc = "idle"
    /\ \E b \in Optional, j \in Optional, f \in Optional, y \in Optional,
          t \in ListOutcomes :
           LET e == Env("unused", Unused, Unused, t)
               x == [bibcode |-> b, journal_name |-> j, first_author |-> f,
                     publication_year |-> y] IN
           Done("search_alma_by_bibliography", x, e, search_alma_by_bibliography(x, e))

SearchByMemberOus ==
    /\ pc = "idle"
    /\ \E t \in ListOutcomes, u \in MemberOusIds :
       \E row \in RowsOf(t) :
           LET e == WithRow(Env("unused", Unused, Unused, t), row)
               x == [member_ous_id |-> u] IN
           Done("search_alma_by_member_ous", x, e, search_alma_by_member_ous(x, e))

SearchByDataType ==
    /\ pc = "idle"
    /\ \E d \in DataTypes, t \in ListOutcomes :
       \E row \in RowsOf(t) :
           LET e == WithRow(Env("unused", Unused, Unused, t), row)
               x == [data_type |-> d] IN
           Done("search_alma_by_data_type", x, e, search_alma_by_data_type(x, e))

SearchByScienceKeyword ==
    /\ pc = "idle"
    /\ \E d \in {None} \cup DataTypes, t \in ListOutcomes :
           LET e == Env("unused", Unused, Unused, t)
               x == [data_type |-> d] IN
           Done("search_alma_by_science_keyword", x, e,
                search_alma_by_science_keyword(x, e))

SearchByAbstract ==
    /\ pc = "idle"
    /\ \E terms \in SearchTerms, pub \in BOOLEAN, t \in ListOutcomes :
           LET e == Env("unused", Unused, Unused, t)
               x == [search_terms |-> terms, search_pub_abstract |-> pub] IN
           Done("search_alma_by_abstract", x, e, search_alma_by_abstract(x, e))

SearchBySensitivity ==
    /\ pc = "idle"
    /\ \E t \in ListOutcomes,
          x \in {NoArgs} \cup {[sensitivity_type |-> s] : s \in SensitivityTypes} :
       \E row \in RowsOf(t) :
           LET e == WithRow(Env("unused", Unused, Unused, t), row) IN
           Done("search_alma_by_sensitivity", x, e, search_alma_by_sensitivity(x, e))

\* query_alma_multiple_sources.  The list is read once, left to right: the model
\* chooses each name, and whether the list has one more, when the loop asks for it.
BatchName == "query_alma_multiple_sources"

\* Lines 1287-1297: a missing collaborator ends the call; otherwise the loop starts.
BatchStart ==
    /\ pc = "idle"
    /\ IF ~SIMBAD_AVAILABLE \/ ~PYVO_AVAILABLE
       THEN \E n \in 0..MaxNames :
                Done(BatchName, [source_names |-> n], EnvNone,
                     Refuse(IF ~SIMBAD_AVAILABLE
                            THEN "astroquery not installed - cannot resolve target names"
                            ELSE PyvoMissing, NoCalls))
       ELSE /\ pc' = "batch"
            /\ op' = BatchName
            /\ args' = NoArgs
            /\ env' = EnvNone
            /\ calls' = NoCalls
            /\ outcome' = "running"
            /\ response' = <<>>
            /\ sent' = <<>>
            /\ idx' = 0
            /\ results_by_source' = NoResults
            /\ total_observations' = 0
            /\ last_outcome' = NoResults
            /\ UNCHANGED flags

\* Leaving the function: its locals are gone.
BatchReturn(n, r) ==
    /\ pc' = "done"
    /\ args' = [source_names |-> n]
    /\ calls' = r.calls
    /\ outcome' = r.kind
    /\ response' = r.response
    /\ idx' = 0
    /\ results_by_source' = NoResults
    /\ total_observations' = 0
    /\ UNCHANGED <<op, env, sent, flags, last_outcome>>

\* One iteration of `for source_name in source_names` over a list of n names.
BatchItem ==
    /\ pc = "batch"
    /\ {n \in (idx + 1)..MaxNames : idx < SliceLen(n)} # {}
    /\ \E name \in Names, o \in ItemOutcomes :
        LET r == batch_item(o, calls) IN
        IF r.kind = "raised"
        THEN \* lines 1368-1369: the outer except clause
             \E n \in (idx + 1)..MaxNames :
                 /\ idx < SliceLen(n)
                 /\ BatchReturn(n, Caught("Batch query failed: ", r.cause, r.calls))
        ELSE /\ idx' = idx + 1
             /\ results_by_source' = (name :> r.entry) @@ results_by_source
             /\ total_observations' = total_observations + r.add
             /\ last_outcome' = (name :> o) @@ last_outcome
             /\ calls' = r.calls
             /\ sent' = sent \o batch_queries(o)
             /\ UNCHANGED <<pc, op, args, env, outcome, response, flags>>

\* The list of n names is exhausted: lines 1357-1366.
BatchFinish ==
    /\ pc = "batch"
    /\ \E n \in idx..MaxNames :
        /\ SliceLen(n) = idx
        /\ BatchReturn(n, Return(batch_response(SliceLen(n), results_by_source,
                                                total_observations), calls))

Next ==
    \/ SearchByTarget
    \/ SearchByPosition
    \/ SearchByProposal
    \/ CheckLineCoverage
    \/ GetAlmaInfo
    \/ SearchByFrequency
    \/ SearchByResolution
    \/ RunTapQuery
    \/ SearchBySourceName
    \/ SearchByBibliography
    \/ SearchByMemberOus
    \/ SearchByDataType
    \/ SearchByScienceKeyword
    \/ SearchByAbstract
    \/ SearchBySensitivity
    \/ BatchStart
    \/ BatchItem
    \/ BatchFinish
    \/ Deliver

Spec == Init /\ [][Next]_vars

\* ------------------------------------------------------------------ claims
Finished(tool) == pc = "done" /\ op = tool
HasError == "error" \in DOMAIN response
\* The batch ran its loop (both collaborators it needs are installed).
BatchRan == Finished(BatchName) /\ SIMBAD_AVAILABLE /\ PYVO_AVAILABLE
FallbackTools == {"search_alma_by_target", "search_alma_by_proposal"}
\* The tools whose response lists observations.
ListTools ==
    {"search_alma_by_target", "search_alma_by_position", "search_alma_by_proposal",
     "search_alma_by_frequency", "search_alma_by_resolution",
     "search_alma_by_source_name", "search_alma_by_bibliography",
     "search_alma_by_member_ous", "search_alma_by_data_type",
     "search_alma_by_science_keyword", "search_alma_by_abstract",
     "search_alma_by_sensitivity"}
\* The request got as far as choosing a backend.
ReachedBackend ==
    \/ /\ op = "search_alma_by_target"
       /\ SIMBAD_AVAILABLE
       /\ env.simbad = "ok"
    \/ /\ op = "search_alma_by_proposal"
       /\ \/ Truthy(args.proposal_id)
          \/ Truthy(args.pi_name)
          \/ Truthy(args.science_category)

RECURSIVE SumCounts(_, _)
SumCounts(results, S) ==
    IF S = {} THEN 0
    ELSE LET s == CHOOSE x \in S : TRUE IN
         results[s].count + SumCounts(results, S \ {s})

\* C1: in search-by-target-name and search-by-proposal, when alminer is not
\* installed or its call raises (and pyvo is installed), the TAP backend is asked
\* next, and TAP's result is the response when TAP succeeds.
C1_FallbackAfterUnavailableOrError ==
    (pc = "done" /\ op \in FallbackTools /\ ReachedBackend /\ PYVO_AVAILABLE
        /\ (~ALMINER_AVAILABLE \/ env.alminer.exc))
    => /\ calls.tap = 1
       /\ ~env.tap.exc => (~HasError /\ response.count = env.tap.n)

\* C2 as stated: alminer is called only by the target-name, position and
\* line-coverage tools; search-by-proposal among the others makes TAP calls only.
C2_AlminerOnlyPositionAndLineCoverage ==
    calls.alminer > 0
    => op \in {"search_alma_by_target", "search_alma_by_position",
               "check_alma_line_coverage"}

\* C2 amended: alminer is called only by the target-name, proposal and
\* line-coverage tools; every other tool (search-by-position included) makes no
\* alminer call under any flags, and outside the batch loop at most one TAP call.
AlminerTools ==
    {"search_alma_by_target", "search_alma_by_proposal", "check_alma_line_coverage"}

C2_AlminerOnlyTargetProposalLineCoverage ==
    /\ calls.alminer > 0 => op \in AlminerTools
    /\ (pc = "done" /\ op \notin AlminerTools /\ op # BatchName)
       => (calls.alminer = 0 /\ calls.tap <= 1 /\ calls.simbad = 0)

\* C2 witness: source-name search failed on TAP with alminer installed and willing.
C2_Witness ==
    /\ Finished("search_alma_by_source_name")
    /\ ALMINER_AVAILABLE
    /\ ~env.alminer.exc
    /\ env.tap.exc
    /\ calls = [simbad |-> 0, alminer |-> 0, tap |-> 1]

\* C3: a backend call that succeeds with zero rows ends the request with a success
\* response (count 0, no observations, no error); after an empty alminer result in
\* search-by-target-name and search-by-proposal TAP is not asked.
C3_EmptyResultIsTerminal ==
    (pc = "done" /\ op \in ListTools)
    => /\ (op \in FallbackTools /\ calls.alminer = 1 /\ ~env.alminer.exc
               /\ env.alminer.n = 0)
          => /\ calls.tap = 0
             /\ ~HasError
             /\ response.count = 0
             /\ response.observations = <<>>
       /\ (calls.tap = 1 /\ ~env.tap.exc /\ env.tap.n = 0)
          => /\ ~HasError
             /\ response.count = 0
             /\ response.observations = <<>>

\* C3 witness: keysearch returned nothing while TAP would have had a row.
C3_Witness ==
    /\ Finished("search_alma_by_proposal")
    /\ PYVO_AVAILABLE
    /\ calls.alminer = 1
    /\ env.alminer = Rows(0)
    /\ env.tap = Rows(1)
    /\ response.count = 0

\* C4: outside the batch loop each backend is called at most once per request, and
\* when alminer and then TAP both raise, the error carries TAP's message.
C4_FallbackOnceLastErrorReported ==
    (pc = "done" /\ op # BatchName)
    => /\ calls.alminer <= 1
       /\ calls.tap <= 1
       /\ (calls.alminer = 1 /\ env.alminer.exc /\ calls.tap = 1 /\ env.tap.exc)
          => (HasError /\ response.error[2] = TapExc)

\* C4 witness: search-by-proposal with both backends raising.
C4_Witness ==
    /\ Finished("search_alma_by_proposal")
    /\ calls.alminer = 1
    /\ calls.tap = 1
    /\ env.alminer.exc
    /\ env.tap.exc
    /\ HasError

\* What the per-name entry r must say after the collaborators answered o.
EntryRecords(o, r) ==
    /\ o.simbad = "exc" <=> (r.status = "error" /\ r.message = SimbadExc)
    /\ o.simbad = "nomatch" <=> r.status = "not_resolved"
    /\ (o.simbad = "ok" /\ o.tap.exc) <=> (r.status = "error" /\ r.message = TapExc)

\* C5: in the batch query a resolver exception, a resolver no-match or a TAP
\* exception for a name is stored as that name's entry, the loop goes on to the
\* next name (one resolver call per name consumed, all of the first 20 consumed at
\* the end), and the response is never a top-level error.
C5_PerItemFailuresIsolated ==
    /\ pc = "batch"
       => /\ calls.simbad = idx
          /\ DOMAIN results_by_source = DOMAIN last_outcome
          /\ \A s \in DOMAIN results_by_source :
                EntryRecords(last_outcome[s], results_by_source[s])
    /\ BatchRan
       => /\ outcome = "returned"
          /\ ~HasError
          /\ calls.simbad = Min(BatchLimit, args.source_names)
          /\ \A s \in DOMAIN response.results_by_source :
                EntryRecords(last_outcome[s], response.results_by_source[s])

\* C5 witness: two names consumed, only the second reached TAP and was found, so the
\* first one failed resolution and the loop went on.
C5_Witness ==
    /\ BatchRan
    /\ args.source_names = 2
    /\ calls.tap = 1
    /\ DOMAIN response.results_by_source = {"M87"}
    /\ response.results_by_source["M87"].status = "found"

\* C6: the batch query processes exactly the first min(20, n) names of n: that
\* many resolver calls, no more TAP calls than that, and no error for the excess.
C6_BatchTruncatedToTwenty ==
    /\ pc = "batch" => (idx <= BatchLimit /\ calls.simbad = idx /\ calls.tap <= idx)
    /\ BatchRan
       => /\ calls.simbad = Min(20, args.source_names)
          /\ calls.tap <= Min(20, args.source_names)
          /\ ~HasError
          /\ response.total_sources_queried = Min(20, args.source_names)

\* C6 witness: a 25-name list answered after 20 resolver calls.
C6_Witness ==
    /\ BatchRan
    /\ args.source_names = 25
    /\ calls.simbad = 20
    /\ ~HasError

\* C7: the per-name result map holds one result per processed occurrence, also
\* when a name is repeated.
C7_OneResultPerOccurrence ==
    BatchRan
    => Cardinality(DOMAIN response.results_by_source) = response.total_sources_queried

\* C8: in a batch success response sources_with_alma_data is the number of
\* per-name entries with at least one observation and total_observations is the
\* sum of count over the per-name entries.
C8_AggregatesAgreeWithDetail ==
    BatchRan
    => LET r == response.results_by_source IN
       /\ response.sources_with_alma_data
              = Cardinality({s \in DOMAIN r : r[s].count > 0})
       /\ response.total_observations = SumCounts(r, DOMAIN r)

\* Every name the loop consumed failed resolution: no name got as far as TAP.
AllFailedResolution == BatchRan /\ calls.tap = 0

\* C9 as stated: when every processed name fails resolution (no match, or the
\* resolver call raises), sources_with_alma_data is 0 and every entry is not_resolved.
C9_AllUnresolvedAreNotResolved ==
    AllFailedResolution
    => /\ response.sources_with_alma_data = 0
       /\ \A s \in DOMAIN response.results_by_source :
             response.results_by_source[s].status = "not_resolved"

\* C9 amended: when every processed name fails resolution, sources_with_alma_data
\* is 0 and every entry has status not_resolved if the resolver returned no match
\* for the name and status error (carrying the resolver's message) if the resolver
\* call itself failed.
C9_AllUnresolvedNotResolvedOrError ==
    AllFailedResolution
    => /\ response.sources_with_alma_data = 0
       /\ response.total_observations = 0
       /\ \A s \in DOMAIN response.results_by_source :
             LET r == response.results_by_source[s] IN
             /\ last_outcome[s].simbad \in {"nomatch", "exc"}
             /\ last_outcome[s].simbad = "nomatch" => r.status = "not_resolved"
             /\ last_outcome[s].simbad = "exc"
                => (r.status = "error" /\ r.message = SimbadExc)

\* C9 witness: one name unknown to the resolver, one for which the resolver raised.
C9_Witness ==
    /\ AllFailedResolution
    /\ DOMAIN response.results_by_source = Names
    /\ response.results_by_source["M87"].status = "not_resolved"
    /\ response.results_by_source["NGC 1234"].status = "error"

\* A collaborator failed during the request and no later call made up for it.
UnrecoveredFailure ==
    \/ calls.simbad = 1 /\ env.simbad \in {"exc", "nomatch"}
    \/ calls.alminer = 1 /\ env.alminer.exc /\ calls.tap = 0
    \/ calls.tap = 1 /\ env.tap.exc
    \/ /\ op = "check_alma_line_coverage"
       /\ calls.alminer = 1
       /\ ~env.alminer.exc
       /\ env.alminer.n > 0
       /\ env.covered.exc

\* C10: every tool returns a mapping and never raises, whatever the resolver and
\* the backends do; outside the batch loop a failure that no fallback recovered
\* gives a mapping with an error field.
C10_NeverRaisesErrorField ==
    pc = "done"
    => /\ outcome = "returned"
       /\ (op # BatchName /\ UnrecoveredFailure) => HasError

\* C10 witness: the data-type search with TAP raising.
C10_Witness ==
    /\ Finished("search_alma_by_data_type")
    /\ calls.tap = 1
    /\ env.tap.exc
    /\ outcome = "returned"
    /\ HasError

\* A condition that narrows the result: its value comes from an argument and is not
\* empty (LIKE '%%' matches every value).
Discriminating(p) == p.from # "fixed" /\ Truthy(p.value)
MetadataTools ==
    {"search_alma_by_proposal", "search_alma_by_bibliography",
     "search_alma_by_abstract"}

\* C11: in search-by-proposal, search-by-bibliography and search-by-abstract, every
\* query handed to a backend has at least one discriminating condition; when the
\* filters give none for the backend that runs the query, the request ends with a
\* validation error and no query is sent.
C11_NoUnfilteredQuery ==
    (pc = "done" /\ op \in MetadataTools)
    => \A i \in DOMAIN sent : \E p \in sent[i].where : Discriminating(p)

\* The response is one of the two validation errors.
ValidationError ==
    HasError /\ response.error \in {<<NoFilterGiven, None>>, <<DataTypeInvalid, None>>}
ValidatingTools ==
    {"search_alma_by_proposal", "search_alma_by_bibliography",
     "search_alma_by_data_type"}

\* C12: when search-by-proposal, search-by-bibliography or search-by-data-type ends
\* with a validation error (no filter given, data_type not cube or image), the
\* request has called neither the resolver nor a backend.
C12_ValidationBeforeRemoteCalls ==
    (pc = "done" /\ op \in ValidatingTools /\ ValidationError)
    => (calls = NoCalls /\ sent = <<>>)

\* C12 witness: data_type "table" is refused with pyvo installed and the archive
\* ready to answer with rows.
C12_Witness ==
    /\ Finished("search_alma_by_data_type")
    /\ PYVO_AVAILABLE
    /\ args.data_type = "table"
    /\ env.tap = Rows(1)
    /\ ValidationError
    /\ calls = NoCalls

\* The tools that ask only the TAP service.
TapOnlyTools ==
    (ListTools \ FallbackTools) \cup {"run_alma_tap_query"}

\* The flags say the tool of the request cannot be completed: it needs the resolver
\* and astroquery is missing, or no backend it can use is installed.
CollaboratorMissing ==
    \/ op = "search_alma_by_target"
       /\ (~SIMBAD_AVAILABLE \/ (~ALMINER_AVAILABLE /\ ~PYVO_AVAILABLE))
    \/ op = "search_alma_by_proposal" /\ ~ALMINER_AVAILABLE /\ ~PYVO_AVAILABLE
    \/ op = "check_alma_line_coverage" /\ (~SIMBAD_AVAILABLE \/ ~ALMINER_AVAILABLE)
    \/ op = BatchName /\ (~SIMBAD_AVAILABLE \/ ~PYVO_AVAILABLE)
    \/ op \in TapOnlyTools /\ ~PYVO_AVAILABLE

\* C13: when the flags say that a collaborator the operation needs is missing (the
\* resolver for a name-based operation, every backend it can use for a search), the
\* response is an error and no remote call was made before it.
C13_UnavailableErrorBeforeRemoteCalls ==
    (pc = "done" /\ CollaboratorMissing) => (HasError /\ calls = NoCalls)

\* The row cap the raw query is to work with: max_rows (100 when it is left out)
\* brought into 1..1000.
RequestedCap ==
    LET m == IF "max_rows" \in DOMAIN args THEN args.max_rows ELSE 100 IN
    IF m < 1 THEN 1 ELSE IF m > 1000 THEN 1000 ELSE m

\* The query text has a row cap: TOP follows the SELECT keyword.
HasTopClause(text) ==
    \E i \in DOMAIN text :
        /\ Upper(text[i]) = "SELECT"
        /\ i + 1 \in DOMAIN text
        /\ Upper(text[i + 1]) = "TOP"
RawQuerySent == Finished("run_alma_tap_query") /\ calls.tap = 1
\* The query went out with a row cap the caller had not written.
CapInjected == RawQuerySent /\ sent[1].text # args.sql_query

\* C14: in run-raw-query the row cap is max_rows brought into 1..1000 (100 when
\* max_rows is left out), whatever integer is supplied; that value is the cap
\* injected into the query and the number of rows the response is cut to.
C14_RowCapClampedTo1And1000 ==
    RawQuerySent
    => /\ sent[1].max_rows = RequestedCap
       /\ CapInjected
          => \E i \in 1..(Len(sent[1].text) - 1) :
                 /\ sent[1].text[i] = "TOP"
                 /\ sent[1].text[i + 1] = ToString(RequestedCap)
       /\ (~HasError /\ response.count > 0)
          => /\ Len(response.rows) = Min(RequestedCap, response.count)
             /\ response.showing = Len(response.rows)

\* C15: a SELECT query given to run-raw-query without a TOP clause goes to the
\* backend with a row cap injected, whatever the letter case of SELECT and also
\* when TOP or COUNT occur inside other words of the text.
C15_CapInjectedWhenAbsent ==
    (RawQuerySent /\ Upper(args.sql_query[1]) = "SELECT"
        /\ ~HasTopClause(args.sql_query))
    => HasTopClause(sent[1].text)

\* The list-style tools: their response shows the first rows of the result.
ListStyleTools == ListTools \ {"search_alma_by_member_ous"}
\* The request ended with a success response that lists observations.
ListSuccess == pc = "done" /\ op \in ListTools /\ ~HasError

ObservationKeys(m) ==
    IF m.observations = <<>> THEN {} ELSE DOMAIN m.observations[1]

\* C17: search-by-target-name gives the same result shape whichever backend
\* answered: a success response that came from the TAP fallback has the top-level
\* keys (the resolved coordinates among them) and the observation keys
\* (integration_time_sec among them) of the response the alminer path gives for
\* the same rows.
C17_SameShapeWhicheverBackend ==
    (Finished("search_alma_by_target") /\ ~HasError /\ calls.tap = 1)
    => LET viaAlminer ==
               target_alminer([env EXCEPT !.alminer = env.tap],
                              Call(NoCalls, "simbad")).response IN
       /\ DOMAIN response = DOMAIN viaAlminer
       /\ ObservationKeys(response) = ObservationKeys(viaAlminer)

\* C18: search-by-sensitivity filters and orders on the line column
\* (sensitivity_10kms) exactly when sensitivity_type is "line" in any letter case,
\* and on the continuum column (cont_sensitivity_bandwidth) for "continuum" and for
\* every other value.
C18_LineColumnOnlyForLine ==
    (Finished("search_alma_by_sensitivity") /\ calls.tap = 1)
    => LET column == IF Lower(SensitivityType(args)) = "line"
                     THEN "sensitivity_10kms"
                     ELSE "cont_sensitivity_bandwidth" IN
       /\ sent[1].order_by = column
       /\ sent[1].sensitivity = column
       /\ \E p \in sent[1].where :
              p.column = column /\ p.from = "max_sensitivity_mjy"

DataTypeTools == {"search_alma_by_data_type", "search_alma_by_science_keyword"}

\* C19: search-by-data-type and search-by-science-keyword, given a data_type that
\* is not cube or image (in any letter case), end with the validation error and
\* send no query; the value is never dropped from the query in silence.
C19_InvalidDataTypeRefused ==
    (pc = "done" /\ op \in DataTypeTools /\ PYVO_AVAILABLE
        /\ (Truthy(args.data_type) \/ op = "search_alma_by_data_type")
        /\ Lower(args.data_type) \notin {"cube", "image"})
    => /\ ValidationError
       /\ calls.tap = 0
       /\ sent = <<>>

\* What the code itself writes into an error response: the text before str(e).
\* (str(e) is the failing library's text, e.g. the same connection error for both.)
ErrorText(m) == IF "error" \in DOMAIN m THEN m.error[1] ELSE "no error"
\* The resolver finds no match; the resolver answers and every backend call raises.
EnvNoMatch == Env("nomatch", Unused, Unused, Unused)
EnvBackendFails == Env("ok", Raises, Raises, Raises)
\* The resolver call of the finished request failed.
ResolverFailed(tool) == Finished(tool) /\ calls.simbad = 1 /\ env.simbad = "exc"

\* C20: in search-by-target-name, check-line-coverage and the batch query, what is
\* reported when the resolver call fails differs from what is reported when the
\* resolver finds no match, and from what is reported when the resolver answers
\* and the archive backend fails.
C20_ResolverFailureDistinguishable ==
    /\ ResolverFailed("search_alma_by_target")
       => /\ ErrorText(response)
                 # ErrorText(search_alma_by_target(args, EnvNoMatch).response)
          /\ (ALMINER_AVAILABLE \/ PYVO_AVAILABLE)
             => ErrorText(response)
                    # ErrorText(search_alma_by_target(args, EnvBackendFails).response)
    /\ ResolverFailed("check_alma_line_coverage")
       => /\ ErrorText(response)
                 # ErrorText(check_alma_line_coverage(args, EnvNoMatch).response)
          /\ ErrorText(response)
                 # ErrorText(check_alma_line_coverage(args, EnvBackendFails).response)
    /\ BatchRan
       => \A s \in DOMAIN response.results_by_source :
              last_outcome[s].simbad = "exc"
              => LET status == response.results_by_source[s].status
                     no_match == batch_item([simbad |-> "nomatch", tap |-> Unused],
                                            NoCalls).entry
                     tap_fails == batch_item([simbad |-> "ok", tap |-> Raises],
                                             NoCalls).entry IN
                 /\ status # no_match.status
                 /\ status # tap_fails.status

\* C21: every non-error response of check-line-coverage has total_observations,
\* covering_line and observed_frequency_ghz, with covering_line <= total_observations
\* and observed_frequency_ghz = line_frequency_ghz / (1 + redshift) rounded to 4
\* decimals (the nearest multiple of 0.0001); also when no observation was found.
C21_LineCoverageFields ==
    (Finished("check_alma_line_coverage") /\ ~HasError)
    => /\ {"total_observations", "covering_line", "observed_frequency_ghz"}
              \subseteq DOMAIN response
       /\ response.covering_line <= response.total_observations
       /\ LET d == response.observed_frequency_ghz * (10 + args.redshift)
                       - args.line_frequency_ghz * 10
              dist == IF d < 0 THEN -d ELSE d IN
          2 * dist <= 10 + args.redshift

\* C22: every failure response of run-raw-query, from the missing TAP library as
\* from a failed query, has an error field and a usage hint.
C22_RawQueryFailureHasHint ==
    (Finished("run_alma_tap_query") /\ (~PYVO_AVAILABLE \/ env.tap.exc))
    => {"error", "hint"} \subseteq DOMAIN response

\* ---------------------------------------------------------------- C23
\* The identifier compared with member_ous_uid, and echoed as member_ous_id.
UsedUid == (CHOOSE p \in sent[1].where : p.column = "member_ous_uid").value
MemberOusSent ==
    /\ Finished("search_alma_by_member_ous")
    /\ Len(sent) = 1

\* C23: normalising a dataset identifier twice gives what normalising it once
\* gives, and an identifier already in the canonical form uid://A/B/C is used
\* unchanged.
C23_NormalizeIdempotent ==
    MemberOusSent
    => /\ normalized_uid(UsedUid) = UsedUid
       /\ normalized_uid(normalized_uid(args.member_ous_id))
              = normalized_uid(args.member_ous_id)
       /\ (args.member_ous_id = CanonicalUid => UsedUid = CanonicalUid)

\* The underscore form has been normalised to the canonical form, which a
\* second normalisation leaves alone.
C23_Witness ==
    /\ MemberOusSent
    /\ args.member_ous_id = UnderscoreUid
    /\ UsedUid = CanonicalUid
    /\ normalized_uid(UsedUid) = CanonicalUid

\* ---------------------------------------------------------------- C24
\* The stated rule: only the first "___" becomes "://", every other underscore
\* becomes "/".
RECURSIVE ReplaceFirstTriple(_)
ReplaceFirstTriple(s) ==
    IF Len(s) < 3 THEN s
    ELSE IF SubSeq(s, 1, 3) = <<"_", "_", "_">>
         THEN <<":", "/", "/">> \o SubSeq(s, 4, Len(s))
         ELSE <<Head(s)>> \o ReplaceFirstTriple(Tail(s))

SchemeSeparators(s) ==
    Cardinality({i \in 1..(Len(s) - 2) : SubSeq(s, i, i + 2) = <<":", "/", "/">>})

\* C24: the identifier used in the member_ous_uid filter and echoed as
\* member_ous_id is the input with its first separator group rewritten to "://"
\* and every later separator to "/", so it holds at most one "://".
C24_FirstGroupOnly ==
    MemberOusSent
    => /\ UsedUid = ReplaceUnderscore(ReplaceFirstTriple(args.member_ous_id))
       /\ SchemeSeparators(args.member_ous_id) = 0 => SchemeSeparators(UsedUid) <= 1
       /\ (~HasError => response.member_ous_id = UsedUid)

\* ---------------------------------------------------------------- C25
\* The query restricts the result to public observations.
PublicRestricted(q) ==
    \/ q.backend = "alminer" /\ q.public
    \/ \E p \in q.where : p.from = "public_only"

\* C25: with public_only true, every query search-by-position and
\* search-by-target-name send to a backend restricts the result to public
\* observations.
C25_PublicOnlyRestrictsQuery ==
    (/\ pc = "done"
     /\ op \in {"search_alma_by_position", "search_alma_by_target"}
     /\ args.public_only)
    => \A i \in DOMAIN sent : PublicRestricted(sent[i])

\* ---------------------------------------------------------------- C26
\* The row an observation of the finished search was made of.
ObservedRow == IF calls.alminer = 1 THEN env.row ELSE PositionRow

\* C26: in search-by-target-name and search-by-position every observation has
\* its coordinate keys, taken from s_ra/s_dec when the row has them, otherwise
\* from ra/dec, otherwise 0; a string field missing from the row is "Unknown".
C26_FieldResolutionOrder ==
    (/\ pc = "done"
     /\ op \in {"search_alma_by_position", "search_alma_by_target"}
     /\ ~HasError
     /\ response.count > 0)
    => \A k \in DOMAIN response.observations :
           LET obs == response.observations[k]
               row == ObservedRow IN
           /\ {"target", "ra", "dec", "band", "proposal_id"} \subseteq DOMAIN obs
           /\ obs.ra = IF "s_ra" \in DOMAIN row THEN row.s_ra
                       ELSE IF "ra" \in DOMAIN row THEN row.ra ELSE "0"
           /\ obs.dec = IF "s_dec" \in DOMAIN row THEN row.s_dec
                        ELSE IF "dec" \in DOMAIN row THEN row.dec ELSE "0"
           /\ "target_name" \notin DOMAIN row => obs.target = "Unknown"
           /\ DOMAIN row \cap {"band_list", "band"} = {} => obs.band = "Unknown"

\* The alminer table has ra but not s_ra, and neither s_dec nor dec: the
\* observation takes ra from the second name and dec from the default.
C26_Witness ==
    /\ Finished("search_alma_by_target")
    /\ ~HasError
    /\ calls.alminer = 1
    /\ response.count > 0
    /\ DOMAIN env.row \cap {"s_ra", "ra", "s_dec", "dec"} = {"ra"}
    /\ response.observations[1].ra = "ra"
    /\ response.observations[1].dec = "0"

\* ---------------------------------------------------------------- C27
ConvertingTools ==
    {"search_alma_by_frequency", "search_alma_by_resolution",
     "search_alma_by_member_ous", "search_alma_by_data_type",
     "search_alma_by_sensitivity"}

\* C27: the frequency_ghz and the resolution_arcsec an operation reports for a
\* row are those search-by-frequency and search-by-resolution report for the
\* same row: one conversion factor for the frequency column and one for the
\* s_resolution column, whichever of the five operations answers.
C27_SameConversionEverywhere ==
    (pc = "done" /\ op \in ConvertingTools /\ ~HasError /\ response.count > 0)
    => \A k \in DOMAIN response.observations :
           LET obs == response.observations[k] IN
           /\ "frequency_ghz" \in DOMAIN obs
              => obs.frequency_ghz = frequency_obs(env.row).frequency_ghz
           /\ "resolution_arcsec" \in DOMAIN obs
              => obs.resolution_arcsec = resolution_obs(env.row).resolution_arcsec

\* ---------------------------------------------------------------- C28
ProposalFilters == {"proposal_id", "pi_name", "science_category"}
\* The filters the caller supplied.
SuppliedFilters == {f \in ProposalFilters : Truthy(args[f])}
\* The supplied filters a query has a condition for.
FiltersIn(q) == {f \in ProposalFilters : \E p \in q.where : p.from = f}

\* C28: every query search-by-proposal hands to a backend, alminer or TAP, has
\* a condition for each filter the caller supplied, and for no other.
C28_SameFiltersOnBothPaths ==
    Finished("search_alma_by_proposal")
    => \A i \in DOMAIN sent : FiltersIn(sent[i]) = SuppliedFilters

\* ---------------------------------------------------------------- C29
\* The query carries an explicit row cap within 1..1000: TOP n in the text of a
\* raw query, the TOP of a query the server wrote.
Capped(q) ==
    IF "text" \in DOMAIN q
    THEN \E i \in 1..(Len(q.text) - 2) :
             /\ Upper(q.text[i]) = "SELECT"
             /\ Upper(q.text[i + 1]) = "TOP"
             /\ \E n \in 1..RowCapLimit : q.text[i + 2] = ToString(n)
    ELSE "top" \in DOMAIN q /\ q.top \in 1..RowCapLimit

\* C29: every query an operation sends to the TAP backend carries an explicit
\* row cap between 1 and 1000.
C29_EveryTapQueryCapped ==
    \A i \in DOMAIN sent : sent[i].backend = "tap" => Capped(sent[i])
====
